---- MODULE Spec2Model ----
(***************************************************************************)
(* Model of the MIDI channel-event codec (src/chunk/track/event.rs) and of *)
(* the chunk classifier (src/chunk.rs) of the miami crate.                 *)
(*                                                                         *)
(* Three specifications share the module:                                  *)
(*   SpecDecode - repeated MidiEvent::try_from calls on one byte source    *)
(*   SpecCodec  - to_midi_bytes followed by MidiEvent::try_from            *)
(*   SpecChunk  - ParsedChunk::try_from on one raw chunk                   *)
(***************************************************************************)
EXTENDS Integers, Sequences, FiniteSets

VARIABLES
    src,         \* bytes the byte source yields from its current position
    pos,         \* number of bytes pulled from the byte source so far
    prev,        \* value of pos when the last try_from call started
    result,      \* value returned by the last MidiEvent::try_from call
    event,       \* the MidiEvent handed to to_midi_bytes
    bytes,       \* Vec<u8> returned by to_midi_bytes
    pc,          \* position of the encode/decode test driver
    chunk,       \* the Chunk (type tag, declared length) being classified
    data,        \* the Vec<u8> payload that comes with the chunk
    parsed,      \* value returned by ParsedChunk::try_from
    delegate     \* parser ParsedChunk::try_from called, with its arguments

vars == <<src, pos, prev, result, event, bytes, pc, chunk, data, parsed, delegate>>

-----------------------------------------------------------------------------
(* Bounds and input samples                                                *)

\* a decode call starts only while fewer than MaxPos bytes were pulled
MaxPos == 3
\* largest declared chunk length drawn
MaxChunkLen == 7

\* every status byte: all sixteen selectors on all sixteen channels
StatusBytes == 0 .. 255
\* trailing bytes: zero, 7-bit maximum, 8-bit maximum
PayloadBytes == {0, 127, 255}
\* channel fields of constructed events, including values wider than 4 bits
ChannelFields == {0, 9, 15, 16, 32, 128, 255}
\* u16 payloads of constructed PitchWheelChange events
WordFields == {0, 1, 127, 128, 8192, 16383, 16384, 65535}
\* bytes of chunk payloads (big-endian 1, 2, 96 are built from these)
DataBytes == {0, 1, 96}
\* chunk type tags: the two registered ones and two unregistered ones
ChunkTags == {"MThd", "MTrk", "MTxx", "RIFF"}

-----------------------------------------------------------------------------
(* Fixed-width bit arithmetic                                              *)

RECURSIVE BitOr(_, _)
BitOr(a, b) ==
    IF a = 0 THEN b
    ELSE IF b = 0 THEN a
    ELSE (IF a % 2 = 1 \/ b % 2 = 1 THEN 1 ELSE 0) + 2 * BitOr(a \div 2, b \div 2)

RECURSIVE BitAnd(_, _)
BitAnd(a, b) ==
    IF a = 0 \/ b = 0 THEN 0
    ELSE (IF a % 2 = 1 /\ b % 2 = 1 THEN 1 ELSE 0) + 2 * BitAnd(a \div 2, b \div 2)

\* u16 `<<=`: bits shifted past bit 15 are dropped
Shl16(x, n) == (x * (2 ^ n)) % 65536

-----------------------------------------------------------------------------
(* Values                                                                  *)

NoteMeta(key, velocity) == [key |-> key, velocity |-> velocity]
ControlChange(controller_number, new_value) ==
    [controller_number |-> controller_number, new_value |-> new_value]

NoteOff(channel, meta) == [tag |-> "NoteOff", channel |-> channel, meta |-> meta]
NoteOn(channel, meta) == [tag |-> "NoteOn", channel |-> channel, meta |-> meta]
PolyphonicKeyPressure(channel, meta) ==
    [tag |-> "PolyphonicKeyPressure", channel |-> channel, meta |-> meta]
ControlChangeEvent(channel, cc) == [tag |-> "ControlChange", channel |-> channel, cc |-> cc]
ProgramChange(channel, val) == [tag |-> "ProgramChange", channel |-> channel, val |-> val]
ChannelPressure(channel, val) == [tag |-> "ChannelPressure", channel |-> channel, val |-> val]
PitchWheelChange(channel, val) == [tag |-> "PitchWheelChange", channel |-> channel, val |-> val]

\* every MidiEvent value the enum admits over the sampled field values
MidiEvent ==
    LET metas == {NoteMeta(k, v) : k \in PayloadBytes, v \in PayloadBytes}
        ccs == {ControlChange(n, v) : n \in PayloadBytes, v \in PayloadBytes}
    IN       {NoteOff(c, m) : c \in ChannelFields, m \in metas}
        \cup {NoteOn(c, m) : c \in ChannelFields, m \in metas}
        \cup {PolyphonicKeyPressure(c, m) : c \in ChannelFields, m \in metas}
        \cup {ControlChangeEvent(c, x) : c \in ChannelFields, x \in ccs}
        \cup {ProgramChange(c, v) : c \in ChannelFields, v \in PayloadBytes}
        \cup {ChannelPressure(c, v) : c \in ChannelFields, v \in PayloadBytes}
        \cup {PitchWheelChange(c, w) : c \in ChannelFields, w \in WordFields}

Ok(e) == [ok |-> TRUE, event |-> e]
UnsupportedStatusCode(code) == [ok |-> FALSE, code |-> code]
NoResult == [none |-> TRUE]

-----------------------------------------------------------------------------
(* Byte source                                                             *)

\* Yieldable::get(n): the next n bytes of the source, which moves past them
get(source, n) ==
    [reads |-> SubSeq(source.bytes, source.at + 1, source.at + n),
     source |-> [source EXCEPT !.at = @ + n]]

Source(bs) == [bytes |-> bs, at |-> 0]

\* the source signals a short read when it holds fewer bytes than a get asks
ShortRead == [short |-> TRUE]

-----------------------------------------------------------------------------
(* Encoding                                                                *)

\* variant of get_status_channel_combo: the channel is added (wrapping u8
\* addition) instead of or-ed into the status identifier
get_status_channel_combo_add(e) ==
    LET id == CASE e.tag = "NoteOff" -> 128
                [] e.tag = "NoteOn" -> 144
                [] e.tag = "PolyphonicKeyPressure" -> 160
                [] e.tag = "ControlChange" -> 176
                [] e.tag = "ProgramChange" -> 192
                [] e.tag = "ChannelPressure" -> 208
                [] e.tag = "PitchWheelChange" -> 224
    IN (id + e.channel) % 256

get_status_channel_combo(e) ==
    CASE e.tag = "NoteOff" -> BitOr(128, e.channel)
      [] e.tag = "NoteOn" -> BitOr(144, e.channel)
      [] e.tag = "PolyphonicKeyPressure" -> BitOr(160, e.channel)
      [] e.tag = "ControlChange" -> BitOr(176, e.channel)
      [] e.tag = "ProgramChange" -> BitOr(192, e.channel)
      [] e.tag = "ChannelPressure" -> BitOr(208, e.channel)
      [] e.tag = "PitchWheelChange" -> BitOr(224, e.channel)

NoteMeta_to_midi_bytes(m) == <<m.key, m.velocity>>
ControlChange_to_midi_bytes(c) == <<c.controller_number, c.new_value>>
\* MidiWriteable for u8: the byte itself
u8_to_midi_bytes(v) == <<v>>
\* MidiWriteable for u16: two 7-bit bytes, high bit of each clear
u16_to_midi_bytes(v) == <<(v \div 128) % 128, v % 128>>

to_midi_bytes(e) ==
    LET status_byte == get_status_channel_combo(e)
        extra ==
            CASE e.tag \in {"NoteOff", "NoteOn", "PolyphonicKeyPressure"} ->
                     NoteMeta_to_midi_bytes(e.meta)
              [] e.tag = "ControlChange" -> ControlChange_to_midi_bytes(e.cc)
              [] e.tag \in {"ProgramChange", "ChannelPressure"} -> u8_to_midi_bytes(e.val)
              [] e.tag = "PitchWheelChange" -> u16_to_midi_bytes(e.val)
    IN <<status_byte>> \o extra

-----------------------------------------------------------------------------
(* Decoding                                                                *)

MASK == 7

\* variant of StatusChannel: the channel is taken from the high nibble
StatusChannel_high(status) == status \div 16

\* `status & 0x0F`
StatusChannel(status) == BitAnd(status, 15)
\* variant of StatusCode: the high nibble is masked but not shifted down
StatusCode_unshifted(status) == BitAnd(status, 240)

\* `status >> 4`
StatusCode(status) == status \div 16

\* variant of ArmReads: the ProgramChange arm pulls two bytes
ArmReads_wide(code) ==
    CASE code \in {8, 9, 11, 12, 14} -> 2
      [] code \in {13} -> 1
      [] OTHER -> 0

\* number of bytes the match arm of a status code pulls with value.get
ArmReads(code) ==
    CASE code \in {8, 9, 11, 14} -> 2
      [] code \in {12, 13} -> 1
      [] OTHER -> 0

\* the 0b1110 arm: fold of the two reads, last byte first
PitchWheelValue(reads) ==
    LET first == BitOr(Shl16(0, 7), BitAnd(reads[2], MASK))
    IN BitOr(Shl16(first, 7), BitAnd(reads[1], MASK))

\* MidiEvent::try_from(IteratorWrapper(source)): the result and the source
\* as the call leaves it
MidiEvent_try_from(source) ==
    LET st == get(source, 1)
        status == st.reads[1]
        channel == StatusChannel(status)
        code == StatusCode(status)
        pl == get(st.source, ArmReads(code))
        reads == pl.reads
    IN CASE code = 8 ->
                [res |-> Ok(NoteOff(channel, NoteMeta(reads[1], reads[2]))),
                 source |-> pl.source]
         [] code = 9 ->
                [res |-> Ok(NoteOn(channel, NoteMeta(reads[1], reads[2]))),
                 source |-> pl.source]
         [] code = 11 ->
                [res |-> Ok(ControlChangeEvent(channel, ControlChange(reads[1], reads[2]))),
                 source |-> pl.source]
         [] code = 12 ->
                [res |-> Ok(ProgramChange(channel, reads[1])), source |-> pl.source]
         [] code = 13 ->
                [res |-> Ok(ChannelPressure(channel, reads[1])), source |-> pl.source]
         [] code = 14 ->
                [res |-> Ok(PitchWheelChange(channel, PitchWheelValue(reads))),
                 source |-> pl.source]
         [] OTHER ->
                [res |-> UnsupportedStatusCode(code), source |-> st.source]

-----------------------------------------------------------------------------
(* SpecDecode: repeated decode calls on one byte source                    *)

NoChunk == [chunk_type |-> "", length |-> 0]
NoDelegate == [parser |-> "none"]

\* the next three bytes a source can hold: a status byte and two more
Windows == {<<s, a, b>> : s \in StatusBytes, a \in PayloadBytes, b \in PayloadBytes}

InitDecode ==
    /\ src = <<>>
    /\ pos = 0
    /\ prev = 0
    /\ result = NoResult
    /\ event = NoResult
    /\ bytes = <<>>
    /\ pc = "decode"
    /\ chunk = NoChunk
    /\ data = <<>>
    /\ parsed = NoResult
    /\ delegate = NoDelegate

\* one MidiEvent::try_from call at the current position of the source
Decode ==
    /\ pc = "decode"
    /\ pos < MaxPos
    /\ \E w \in Windows :
          LET out == MidiEvent_try_from(Source(w))
          IN /\ src' = w
             /\ result' = out.res
             /\ prev' = pos
             /\ pos' = pos + out.source.at
    /\ UNCHANGED <<event, bytes, pc, chunk, data, parsed, delegate>>

NextDecode == Decode

SpecDecode == InitDecode /\ [][NextDecode]_vars

-----------------------------------------------------------------------------
(* SpecCodec: an event is written with to_midi_bytes and parsed back       *)

InitCodec ==
    /\ src = <<>>
    /\ pos = 0
    /\ prev = 0
    /\ result = NoResult
    /\ event \in MidiEvent
    /\ bytes = <<>>
    /\ pc = "encode"
    /\ chunk = NoChunk
    /\ data = <<>>
    /\ parsed = NoResult
    /\ delegate = NoDelegate

Encode ==
    /\ pc = "encode"
    /\ bytes' = to_midi_bytes(event)
    /\ pc' = "parse"
    /\ UNCHANGED <<src, pos, prev, result, event, chunk, data, parsed, delegate>>

\* the source holds the bytes the decode of its status byte asks for
Enough(bs) == Len(bs) >= 1 /\ Len(bs) >= 1 + ArmReads(StatusCode(bs[1]))

\* MidiEvent::try_from over bytes.into_iter()
Parse ==
    /\ pc = "parse"
    /\ src' = bytes
    /\ prev' = 0
    /\ IF Enough(bytes)
       THEN LET out == MidiEvent_try_from(Source(bytes))
            IN result' = out.res /\ pos' = out.source.at
       ELSE result' = ShortRead /\ pos' = Len(bytes)
    /\ pc' = "done"
    /\ UNCHANGED <<event, bytes, chunk, data, parsed, delegate>>

NextCodec == Encode \/ Parse

SpecCodec == InitCodec /\ [][NextCodec]_vars

-----------------------------------------------------------------------------
(* Chunk classification                                                    *)

HEADER_CHUNK == "MThd"
TRACK_DATA_CHUNK == "MTrk"

\* Chunk::len(): the declared length of the chunk
ChunkLen(c) == c.length

u16_from_be_bytes(hi, lo) == hi * 256 + lo

InvalidFormat == [ok |-> FALSE, error |-> "InvalidFormat"]
UnknownType == [ok |-> FALSE, error |-> "UnknownType"]
TrackParseError == [ok |-> FALSE, error |-> "TrackParseError"]
Header(h) == [ok |-> TRUE, kind |-> "Header", header |-> h]
Track == [ok |-> TRUE, kind |-> "Track"]

\* HeaderChunk::try_from((format, ntrk, division)): validation of the field
\* values is the header parser's; `valid` is its verdict
HeaderChunk_try_from(format, ntrk, division, valid) ==
    IF valid
    THEN Header([format |-> format, ntrk |-> ntrk, division |-> division])
    ELSE InvalidFormat

\* TrackChunk::try_from(data): `valid` is the track parser's verdict
TrackChunk_try_from(payload, valid) == IF valid THEN Track ELSE TrackParseError

\* variant of HeaderLenOk: any length of at least six bytes is accepted
HeaderLenOk_atleast(c) == ChunkLen(c) >= 6

\* the `chunk.len() == 6` test of the header arm
HeaderLenOk(c) == ChunkLen(c) = 6

\* variant of ChunkArm: the default arm is the track arm
ChunkArm_default_track(chunk_type) ==
    CASE chunk_type = HEADER_CHUNK -> "header"
      [] OTHER -> "track"

\* the arm `match chunk.chunk_type` selects
ChunkArm(chunk_type) ==
    CASE chunk_type = HEADER_CHUNK -> "header"
      [] chunk_type = TRACK_DATA_CHUNK -> "track"
      [] OTHER -> "unknown"

\* ParsedChunk::try_from((chunk, data)): the result and the parser called
ParsedChunk_try_from(c, d, valid) ==
    CASE ChunkArm(c.chunk_type) = "header" ->
             IF HeaderLenOk(c)
             THEN LET format == u16_from_be_bytes(d[1], d[2])
                      ntrk == u16_from_be_bytes(d[3], d[4])
                      division == u16_from_be_bytes(d[5], d[6])
                  IN [res |-> HeaderChunk_try_from(format, ntrk, division, valid),
                      delegate |-> [parser |-> "header",
                                    args |-> <<format, ntrk, division>>]]
             ELSE [res |-> InvalidFormat, delegate |-> NoDelegate]
      [] ChunkArm(c.chunk_type) = "track" ->
             [res |-> TrackChunk_try_from(d, valid),
              delegate |-> [parser |-> "track", args |-> d]]
      [] OTHER -> [res |-> UnknownType, delegate |-> NoDelegate]

RECURSIVE Payloads(_)
\* every payload of n bytes
Payloads(n) ==
    IF n = 0 THEN {<<>>}
    ELSE {Append(p, b) : p \in Payloads(n - 1), b \in DataBytes}

\* a raw chunk comes with a payload of exactly its declared length
InitChunk ==
    /\ src = <<>>
    /\ pos = 0
    /\ prev = 0
    /\ result = NoResult
    /\ event = NoResult
    /\ bytes = <<>>
    /\ pc = "classify"
    /\ \E t \in ChunkTags, n \in 0 .. MaxChunkLen :
          /\ chunk = [chunk_type |-> t, length |-> n]
          /\ data \in Payloads(n)
    /\ parsed = NoResult
    /\ delegate = NoDelegate

Classify ==
    /\ pc = "classify"
    /\ \E valid \in BOOLEAN :
          LET out == ParsedChunk_try_from(chunk, data, valid)
          IN parsed' = out.res /\ delegate' = out.delegate
    /\ pc' = "classified"
    /\ UNCHANGED <<src, pos, prev, result, event, bytes, chunk, data>>

NextChunk == Classify

SpecChunk == InitChunk /\ [][NextChunk]_vars

-----------------------------------------------------------------------------
(* Properties                                                              *)

\* the kind selector the format fixes for each variant
Selector(tag) ==
    CASE tag = "NoteOff" -> 8
      [] tag = "NoteOn" -> 9
      [] tag = "PolyphonicKeyPressure" -> 10
      [] tag = "ControlChange" -> 11
      [] tag = "ProgramChange" -> 12
      [] tag = "ChannelPressure" -> 13
      [] tag = "PitchWheelChange" -> 14

\* the number of trailing bytes the format fixes for each variant
Arity(tag) == IF tag \in {"ProgramChange", "ChannelPressure"} THEN 1 ELSE 2

Recognized == 8 .. 14
\* a decode call has returned
Called == result # NoResult
\* high nibble of the status byte the last decode call read
HighNibble == src[1] \div 16
LowNibble == src[1] % 16

\* C1: decoding the bytes produced by encoding an event succeeds and yields
\* an event equal to the original, for every constructible event.
C1_RoundTrip == pc = "done" => result = Ok(event)

\* C2: a status byte whose high nibble is a recognized selector 0x8..0xE
\* decodes successfully to the variant fixed for that selector, and decoding
\* fails only when the high nibble is outside 0x8..0xE.
C2_RecognizedSelectorsDecode ==
    Called =>
        /\ HighNibble \in Recognized =>
               result.ok /\ Selector(result.event.tag) = HighNibble
        /\ ~result.ok => HighNibble \notin Recognized

\* C3: a status byte whose high nibble is outside 0x8..0xE fails with
\* UnsupportedStatusCode carrying exactly that high nibble, and no event.
C3_UnsupportedCarriesNibble ==
    (Called /\ HighNibble \notin Recognized) =>
        result = [ok |-> FALSE, code |-> HighNibble]

\* the test's status byte 0b00101111 was rejected with code 0b0010
C3_Witness ==
    /\ Called
    /\ src[1] = 47
    /\ result = [ok |-> FALSE, code |-> 2]
    /\ pos = prev + 1

\* C4: every event returned by a decode carries the low nibble of the status
\* byte as its channel, hence a channel in 0..15.
C4_ChannelIsLowNibble ==
    (Called /\ result.ok) =>
        /\ result.event.channel = LowNibble
        /\ result.event.channel \in 0 .. 15

\* status byte 0b10001111 decoded to NoteOff on channel 0x0F
C4_Witness ==
    /\ Called
    /\ src[1] = 143
    /\ result.ok
    /\ result.event.tag = "NoteOff"
    /\ result.event.channel = 15

\* C5: a PitchWheelChange decode of trailing bytes byte0, byte1 yields
\* (byte1 & 0x7F) | ((byte0 & 0x7F) << 7); [0,0] gives 0, [0x7F,0x7F] 0x3FFF.
C5_PitchWheelValue ==
    (Called /\ HighNibble = 14) =>
        result = Ok(PitchWheelChange(LowNibble,
                                     (src[3] % 128) + (src[2] % 128) * 128))

\* C6: the first encoded byte is (selector << 4) | (channel & 0x0F) for every
\* event and any 8-bit channel field.
C6_StatusByteMasksChannel ==
    pc # "encode" => bytes[1] = Selector(event.tag) * 16 + (event.channel % 16)

\* C7: the first encoded byte always has bit 7 set, also when the channel
\* field is above 15.
C7_StatusHighBitSet ==
    pc # "encode" => (bytes[1] \in 0 .. 255 /\ (bytes[1] \div 128) % 2 = 1)

\* an event with a channel field above 15 was encoded
C7_Witness ==
    /\ pc # "encode"
    /\ event.channel > 15
    /\ Len(bytes) >= 2
    /\ bytes[1] >= 128

\* C8: a header-tagged chunk whose declared length is not 6 fails with
\* InvalidFormat and yields no ParsedChunk; with length 6 the header parser
\* receives the three big-endian 16-bit fields of the payload.
C8_HeaderLength ==
    (pc = "classified" /\ chunk.chunk_type = "MThd") =>
        IF chunk.length # 6
        THEN /\ parsed = [ok |-> FALSE, error |-> "InvalidFormat"]
             /\ delegate.parser = "none"
        ELSE /\ delegate.parser = "header"
             /\ delegate.args = <<data[1] * 256 + data[2],
                                  data[3] * 256 + data[4],
                                  data[5] * 256 + data[6]>>

\* a header chunk of declared length 5 was rejected with InvalidFormat
C8_Witness ==
    /\ pc = "classified"
    /\ chunk = [chunk_type |-> "MThd", length |-> 5]
    /\ Len(data) = 5
    /\ parsed = [ok |-> FALSE, error |-> "InvalidFormat"]

\* C9: a chunk whose tag is neither the header nor the track tag fails with
\* UnknownType whatever its length and payload; the track tag reaches only
\* the track parser and the header tag only the header path.
C9_TagDispatch ==
    pc = "classified" =>
        /\ chunk.chunk_type \notin {"MThd", "MTrk"} =>
               parsed = [ok |-> FALSE, error |-> "UnknownType"]
               /\ delegate.parser = "none"
        /\ chunk.chunk_type = "MTrk" =>
               delegate.parser = "track" /\ (parsed.ok => parsed.kind = "Track")
        /\ chunk.chunk_type = "MThd" =>
               delegate.parser \in {"header", "none"}
               /\ (parsed.ok => parsed.kind = "Header")

\* an unregistered tag with a well-formed six-byte payload was rejected
C9_Witness ==
    /\ pc = "classified"
    /\ chunk = [chunk_type |-> "RIFF", length |-> 6]
    /\ data = <<0, 1, 0, 1, 0, 96>>
    /\ parsed = [ok |-> FALSE, error |-> "UnknownType"]

\* C10: each decode call moves the stream position by 1 + arity bytes when it
\* succeeds and by exactly the status byte when it fails.
C10_PositionAdvance ==
    Called =>
        pos - prev = IF result.ok THEN 1 + Arity(result.event.tag) ELSE 1

\* a call that started after two bytes were already consumed failed and
\* consumed its status byte only
C10_Witness ==
    /\ Called
    /\ prev = 2
    /\ ~result.ok
    /\ pos = 3

====
